---------------------------- MODULE Spec2Model ----------------------------
(***************************************************************************)
(* METHStaking (src/contracts/METHStaking.sol): a confidential staking     *)
(* ledger over an IERC7984 custody token.  Every external call is one      *)
(* transaction: it runs to completion and either commits all its writes or *)
(* reverts all of them.                                                    *)
(*                                                                         *)
(* An encrypted value (euint64) is a handle: 0 is the uninitialized        *)
(* handle, handle h > 0 has the cleartext ciphertexts[h].  The cleartext   *)
(* is what a decryption would give; the contract never reads it, it only   *)
(* derives new handles with the FHE operations.  Encrypted integers are    *)
(* unsigned and Width bits wide (64 in the contract; the model scales the  *)
(* width down and keeps the arithmetic modulo 2^Width).                    *)
(***************************************************************************)
EXTENDS Integers, Sequences, FiniteSets, TLC

\* ------------------------------------------------------------------ bounds
Width == 2
MaxCalls == 3
\* transactions in a run against a custody token that moves all it is asked
MaxFullCalls == 4
\* transactions in each of two runs compared call by call
MaxPairCalls == 2
\* transactions in a run against a custody token that calls the ledger back
MaxReenterCalls == 2

Modulus == 2 ^ Width
MaxUint == Modulus - 1

\* amounts are counted in whole mETH: mintFree mints 1*1000000 micro-units
ONE_METH == 1

\* the amounts callers encrypt, and the caps the custody token applies
Amounts == {ONE_METH, MaxUint}
Caps == {0, ONE_METH, MaxUint}

\* ------------------------------------------------------------- principals
Accounts == {"alice", "bob"}
Ledger == "METHStaking"
Token == "methToken"
ZeroAddress == "0x0"
\* the value of methToken while no ledger has been constructed
NoLedger == "none"

\* handle of FHE.asEuint64(0): a trivial encryption is deterministic, every
\* call of asEuint64(0) gives this one handle
ZeroHandle == 1

VARIABLES
    stakedBalances,   \* _stakedBalances: account -> handle
    totalStaked,      \* _totalStaked: handle
    ciphertexts,      \* handle -> cleartext (the coprocessor's store)
    acl,              \* persistent grants: set of <<handle, principal>>
    events,           \* the log of emitted Staked / Unstaked records
    custody,          \* the custody token's books: principal -> units
    last,             \* the last transaction: its call, outcome and pre-state
    ncalls,           \* number of transactions so far
    collateral,       \* account -> units its stakes moved in less its unstakes moved out
    cumulative,       \* account -> units credited to it and units asked out for it, so far
    methToken,        \* the immutable methToken, NoLedger before construction
    twin,             \* a second run of the same calls with other amounts
    amountField,      \* StakingApp: an amount being formatted or parsed
    app,              \* StakingApp: the component's state and what its hooks give it
    runs,             \* StakingApp: the decryption runs started by the effect
    handlers,         \* StakingApp: the invocations of the four button handlers
    shown,            \* StakingApp: where the displayed balances came from
    finished          \* StakingApp: the handler invocation that ended last

\* the front end (src/unnamed/part_003) and the ledger do not share state
frontEnd == <<amountField, app, runs, handlers, shown, finished>>

onChain == <<stakedBalances, totalStaked, ciphertexts, acl, events, custody, last, ncalls,
             collateral, cumulative, methToken, twin>>

vars == <<onChain, frontEnd>>

Min(a, b) == IF a <= b THEN a ELSE b

\* ------------------------------------------------ the state inside a call
\* s.tr are the transient grants (dropped when the transaction ends), s.cc
\* the custody invocations made by the call, s.granted the persistent
\* grants the ledger itself made in the call, s.nested the calls of the
\* ledger made from inside its custody invocations
Current ==
    [bal |-> stakedBalances, total |-> totalStaked, ct |-> ciphertexts,
     acl |-> acl, tr |-> {}, ev |-> events, cust |-> custody, cc |-> <<>>,
     granted |-> {}, nested |-> <<>>]

\* ------------------------------------------------------- FHE primitives
isInitialized(h) == h # 0

Value(s, h) == IF h = 0 THEN 0 ELSE s.ct[h]

\* a derived value is a new handle without any grant
NewHandle(s, v) == [s EXCEPT !.ct = Append(@, v)]
Top(s) == Len(s.ct)

isAllowed(s, h, p) == <<h, p>> \in (s.acl \cup s.tr)

allow(s, h, p) ==
    [s EXCEPT !.acl = @ \cup {<<h, p>>}, !.granted = @ \cup {<<h, p>>}]

allowThis(s, h) == allow(s, h, Ledger)

allowTransient(s, h, p) == [s EXCEPT !.tr = @ \cup {<<h, p>>}]

\* FHE.select(cond, a, b) with b = FHE.asEuint64(0)
selectOrZero(s, cond, a) == NewHandle(s, IF cond THEN Value(s, a) ELSE 0)

\* FHESafeMath (OpenZeppelin confidential-contracts 0.3.0), on cleartexts.
\* tryIncrease: oldValue + delta, kept when it did not wrap; an uninitialized
\* oldValue gives delta itself, without a new handle
tryIncrease(s, oldValue, delta) ==
    IF ~isInitialized(oldValue)
    THEN [s |-> s, success |-> TRUE, updated |-> delta]
    ELSE LET newValue == (Value(s, oldValue) + Value(s, delta)) % Modulus
             success == newValue >= Value(s, oldValue)
             s1 == NewHandle(s, IF success THEN newValue ELSE Value(s, oldValue))
         IN  [s |-> s1, success |-> success, updated |-> Top(s1)]

\* tryDecrease: oldValue - delta, kept when delta <= oldValue; an
\* uninitialized oldValue gives asEuint64(0)
tryDecrease(s, oldValue, delta) ==
    IF ~isInitialized(oldValue)
    THEN IF ~isInitialized(delta)
         THEN [s |-> s, success |-> TRUE, updated |-> oldValue]
         ELSE [s |-> s, success |-> Value(s, delta) = 0, updated |-> ZeroHandle]
    ELSE LET success == Value(s, oldValue) >= Value(s, delta)
             diff == (Value(s, oldValue) - Value(s, delta) + Modulus) % Modulus
             s1 == NewHandle(s, IF success THEN diff ELSE Value(s, oldValue))
         IN  [s |-> s1, success |-> success, updated |-> Top(s1)]


\* ------------------------------------------------ the custody collaborator
\* methToken is any IERC7984.  What it does in one invocation is its own
\* choice c: it rejects the call, returns the uninitialized handle, or moves
\* what it was asked for as far as the sender's balance and its own cap
\* c.cap allow, and returns a new handle holding the moved amount, granted
\* to both parties and to itself.
CustodyChoices ==
    {[kind |-> "reject", cap |-> 0], [kind |-> "uninit", cap |-> 0]}
        \cup [kind : {"move"}, cap : Caps]

custodyTransfer(s, fn, from, to, amount, c) ==
    LET asked == Value(s, amount)
        moved == IF c.kind = "move"
                 THEN Min(Min(asked, s.cust[from]), c.cap)
                 ELSE 0
        call == [fn |-> fn, from |-> from, to |-> to, amount |-> amount,
                 asked |-> asked, moved |-> moved,
                 returned |-> IF c.kind = "move" THEN Top(s) + 1 ELSE 0,
                 rejected |-> (c.kind = "reject"),
                 authorized |-> isAllowed(s, amount, Token)]
        s0 == [s EXCEPT !.cc = Append(@, call)]
        s1 == NewHandle(s0, moved)
        h == Top(s1)
    IN  CASE c.kind = "reject" ->
               [s |-> s0, reverted |-> TRUE, transferred |-> 0]
          [] c.kind = "uninit" ->
               [s |-> s0, reverted |-> FALSE, transferred |-> 0]
          [] OTHER ->
               [s |-> [s1 EXCEPT !.cust[from] = @ - moved,
                                 !.cust[to] = @ + moved,
                                 !.acl = @ \cup {<<h, from>>, <<h, to>>, <<h, Token>>}],
                reverted |-> FALSE, transferred |-> h]

\* a collaborator that goes straight to its own transfer
plainTransferFrom(s, from, to, amount, c) ==
    custodyTransfer(s, "confidentialTransferFrom", from, to, amount, c)

plainTransfer(s, to, amount, c) ==
    custodyTransfer(s, "confidentialTransfer", Ledger, to, amount, c)

\* ------------------------------------------------------------ the ledger
emit(s, name, staker, amount, balanceAfter) ==
    [s EXCEPT !.ev = Append(@, [name |-> name, staker |-> staker,
                                amount |-> amount, balanceAfter |-> balanceAfter])]

\* what a call hands back: the state it leaves, the handle it returns, and
\* "ok" or the error it reverted with
Done(s, ret) == [s |-> s, ret |-> ret, outcome |-> "ok"]
Revert(s, error) == [s |-> s, ret |-> 0, outcome |-> error]

\* faulty variant: _increaseTotal not storing the updated total
_increaseTotal_NotStored(s, amount, actor) ==
    LET r == tryIncrease(s, s.total, amount)
        updatedTotal == r.updated
        s1 == allowThis(r.s, updatedTotal)
    IN  IF actor # ZeroAddress THEN allow(s1, updatedTotal, actor) ELSE s1

\* faulty variant: _increaseTotal granting the actor the total it read, not
\* the total it stores
_increaseTotal_GrantsOldTotal(s, amount, actor) ==
    LET r == tryIncrease(s, s.total, amount)
        updatedTotal == r.updated
        s1 == allowThis(r.s, updatedTotal)
        s2 == IF actor # ZeroAddress /\ isInitialized(s.total)
              THEN allow(s1, s.total, actor)
              ELSE s1
    IN  [s2 EXCEPT !.total = updatedTotal]

_increaseTotal(s, amount, actor) ==
    LET r == tryIncrease(s, s.total, amount)
        updatedTotal == r.updated
        s1 == allowThis(r.s, updatedTotal)
        s2 == IF actor # ZeroAddress THEN allow(s1, updatedTotal, actor) ELSE s1
    IN  [s2 EXCEPT !.total = updatedTotal]

\* faulty variant: _decreaseTotal without the grant for the actor
_decreaseTotal_NoActorGrant(s, amount, actor) ==
    LET r == tryDecrease(s, s.total, amount)
        updatedTotal == r.updated
        s1 == allowThis(r.s, updatedTotal)
    IN  [s1 EXCEPT !.total = updatedTotal]

_decreaseTotal(s, amount, actor) ==
    LET r == tryDecrease(s, s.total, amount)
        updatedTotal == r.updated
        s1 == allowThis(r.s, updatedTotal)
        s2 == IF actor # ZeroAddress THEN allow(s1, updatedTotal, actor) ELSE s1
    IN  [s2 EXCEPT !.total = updatedTotal]

\* faulty variant: _applyIncrease reverting when an increase would overflow
_applyIncrease_Checked(s, staker, amount) ==
    IF ~isInitialized(amount)
    THEN Done(s, amount)
    ELSE LET currentStake == s.bal[staker]
             r == tryIncrease(s, currentStake, amount)
             updatedStake == r.updated
             s1 == allow(allowThis(r.s, updatedStake), updatedStake, staker)
             s2 == [s1 EXCEPT !.bal[staker] = updatedStake]
             s3 == _increaseTotal(s2, amount, staker)
         IN  IF r.success /\ tryIncrease(s2, s2.total, amount).success
             THEN Done(emit(s3, "Staked", staker, amount, updatedStake), amount)
             ELSE Revert(s, "ArithmeticOverflow")

\* faulty variant: _applyIncrease storing the transferred handle as the
\* balance, whatever it is
_applyIncrease_Overwrites(s, staker, amount) ==
    LET s1 == IF isInitialized(amount)
              THEN allow(allowThis(s, amount), amount, staker)
              ELSE s
        s2 == [s1 EXCEPT !.bal[staker] = amount]
        s3 == _increaseTotal(s2, amount, staker)
    IN  Done(emit(s3, "Staked", staker, amount, amount), amount)

\* faulty variant: _applyIncrease emitting the balance it read, not the
\* balance it stores
_applyIncrease_EmitsOldBalance(s, staker, amount) ==
    IF ~isInitialized(amount)
    THEN Done(s, amount)
    ELSE LET currentStake == s.bal[staker]
             r == tryIncrease(s, currentStake, amount)
             updatedStake == r.updated
             s1 == allow(allowThis(r.s, updatedStake), updatedStake, staker)
             s2 == [s1 EXCEPT !.bal[staker] = updatedStake]
             s3 == _increaseTotal(s2, amount, staker)
         IN  Done(emit(s3, "Staked", staker, amount, currentStake), amount)

_applyIncrease(s, staker, amount) ==
    IF ~isInitialized(amount)
    THEN Done(s, amount)
    ELSE LET currentStake == s.bal[staker]
             r == tryIncrease(s, currentStake, amount)
             updatedStake == r.updated
             s1 == allow(allowThis(r.s, updatedStake), updatedStake, staker)
             s2 == [s1 EXCEPT !.bal[staker] = updatedStake]
             s3 == _increaseTotal(s2, amount, staker)
         IN  Done(emit(s3, "Staked", staker, amount, updatedStake), amount)

\* FHE.fromExternal(encryptedAmount, inputProof): the caller's ciphertext of
\* v becomes a handle the ledger may use during this call, or the call
\* reverts on a proof that does not verify
fromExternal(s, v, proofOk) ==
    LET s1 == NewHandle(s, v)
    IN  [s |-> allowTransient(s1, Top(s1), Ledger), amount |-> Top(s1),
         reverted |-> ~proofOk]

\* _stake, up to the custody invocation: methToken may read the amount
\* for the length of the call
_stakeAuthorize(s, amount) ==
    IF isInitialized(amount) THEN allowTransient(s, amount, Token) ELSE s

\* _stake, from the custody invocation's result t on
_stakeCredit(t, staker) ==
    IF t.reverted
    THEN Revert(t.s, "CollaboratorRejected")
    ELSE _applyIncrease(t.s, staker, t.transferred)

\* _unstake, up to the custody invocation: the balance and the total are
\* debited and stored before methToken is called
_unstakeDebit(s, staker, amount) ==
    LET currentStake == s.bal[staker]
        r == tryDecrease(s, currentStake, amount)
        canDecrease == r.success
        updatedStake == r.updated
        sel == selectOrZero(r.s, canDecrease, amount)
        appliedAmount == Top(sel)
        s1 == allow(allowThis(sel, updatedStake), updatedStake, staker)
        s2 == [s1 EXCEPT !.bal[staker] = updatedStake]
        s3 == _decreaseTotal(s2, appliedAmount, staker)
        s4 == IF isInitialized(appliedAmount)
              THEN allowTransient(s3, appliedAmount, Token)
              ELSE s3
    IN  [s |-> s4, appliedAmount |-> appliedAmount, updatedStake |-> updatedStake]

\* _unstake, from the custody invocation's result t on
_unstakeSettle(t, staker, updatedStake) ==
    IF t.reverted
    THEN Revert(t.s, "CollaboratorRejected")
    ELSE Done(emit(t.s, "Unstaked", staker, t.transferred, updatedStake),
              t.transferred)

\* a call of the ledger from inside a custody invocation: stake / unstake
\* (externalEuint64, bytes) with msg.sender = call.sender; the collaborator
\* does not call back a second time
ledgerCall(s, call) ==
    LET e == fromExternal(s, call.v, TRUE)
        d == _unstakeDebit(e.s, call.sender, e.amount)
    IN  IF call.op = "stake"
        THEN _stakeCredit(plainTransferFrom(_stakeAuthorize(e.s, e.amount),
                                            call.sender, Ledger, e.amount, call.c),
                          call.sender)
        ELSE _unstakeSettle(plainTransfer(d.s, call.sender, d.appliedAmount, call.c),
                            call.sender, d.updatedStake)

\* The ledger calls methToken as an external contract and holds no lock
\* while it does: a collaborator of kind "reenter" first has the account
\* c.call.sender call c.call.op of the ledger, in the same transaction, and
\* then goes on as c.then.  s.nested records that call, the ledger state it
\* found and how it ended; a call that reverted leaves nothing else.

\* the collaborator's own transfer, after the call n it made from state s
afterCallback(s, n, fn, from, to, amount, c) ==
    LET seen == [call |-> c.call, outcome |-> n.outcome, during |-> fn,
                 bal |-> s.bal, total |-> s.total, ev |-> s.ev, cust |-> s.cust]
        s1 == IF n.outcome = "ok" THEN n.s ELSE s
    IN  custodyTransfer([s1 EXCEPT !.nested = Append(@, seen)],
                        fn, from, to, amount, c.then)

custodyInvocation(s, fn, from, to, amount, c) ==
    IF c.kind # "reenter"
    THEN custodyTransfer(s, fn, from, to, amount, c)
    ELSE afterCallback(s, ledgerCall(s, c.call), fn, from, to, amount, c)

\* methToken.confidentialTransferFrom(staker, address(this), amount)
confidentialTransferFrom(s, from, to, amount, c) ==
    custodyInvocation(s, "confidentialTransferFrom", from, to, amount, c)

\* methToken.confidentialTransfer(staker, amount): the ledger is the sender
confidentialTransfer(s, to, amount, c) ==
    custodyInvocation(s, "confidentialTransfer", Ledger, to, amount, c)

\* faulty variant: _stake crediting the requested amount
_stake_CreditsRequested(s, staker, amount, c) ==
    LET s1 == IF isInitialized(amount) THEN allowTransient(s, amount, Token) ELSE s
        t == confidentialTransferFrom(s1, staker, Ledger, amount, c)
    IN  IF t.reverted
        THEN Revert(t.s, "CollaboratorRejected")
        ELSE _applyIncrease(t.s, staker, amount)

\* faulty variant: _stake invoking the custody token without authorizing it
\* on the amount
_stake_NoTransientGrant(s, staker, amount, c) ==
    LET t == confidentialTransferFrom(s, staker, Ledger, amount, c)
    IN  IF t.reverted
        THEN Revert(t.s, "CollaboratorRejected")
        ELSE _applyIncrease(t.s, staker, t.transferred)

_stake(s, staker, amount, c) ==
    _stakeCredit(confidentialTransferFrom(_stakeAuthorize(s, amount),
                                          staker, Ledger, amount, c),
                 staker)

\* faulty variant: _unstake applying the requested amount instead of the
\* selected one
_unstake_NoSelect(s, staker, amount, c) ==
    LET currentStake == s.bal[staker]
        r == tryDecrease(s, currentStake, amount)
        updatedStake == r.updated
        appliedAmount == amount
        s1 == allow(allowThis(r.s, updatedStake), updatedStake, staker)
        s2 == [s1 EXCEPT !.bal[staker] = updatedStake]
        s3 == _decreaseTotal(s2, appliedAmount, staker)
        s4 == IF isInitialized(appliedAmount)
              THEN allowTransient(s3, appliedAmount, Token)
              ELSE s3
        t == confidentialTransfer(s4, staker, appliedAmount, c)
    IN  IF t.reverted
        THEN Revert(t.s, "CollaboratorRejected")
        ELSE Done(emit(t.s, "Unstaked", staker, t.transferred, updatedStake),
                  t.transferred)

\* faulty variant: _unstake catching the failure of the transfer, so that
\* its writes stay
_unstake_SwallowsRejection(s, staker, amount, c) ==
    LET currentStake == s.bal[staker]
        r == tryDecrease(s, currentStake, amount)
        canDecrease == r.success
        updatedStake == r.updated
        sel == selectOrZero(r.s, canDecrease, amount)
        appliedAmount == Top(sel)
        s1 == allow(allowThis(sel, updatedStake), updatedStake, staker)
        s2 == [s1 EXCEPT !.bal[staker] = updatedStake]
        s3 == _decreaseTotal(s2, appliedAmount, staker)
        s4 == IF isInitialized(appliedAmount)
              THEN allowTransient(s3, appliedAmount, Token)
              ELSE s3
        t == confidentialTransfer(s4, staker, appliedAmount, c)
    IN  Done(emit(t.s, "Unstaked", staker, t.transferred, updatedStake),
             t.transferred)

\* faulty variant: _unstake subtracting with FHE.sub, which wraps, in place
\* of the guarded decrease
_unstake_Unchecked(s, staker, amount, c) ==
    LET currentStake == s.bal[staker]
        r == NewHandle(s, (Value(s, currentStake) - Value(s, amount) + Modulus) % Modulus)
        updatedStake == Top(r)
        s1 == allow(allowThis(r, updatedStake), updatedStake, staker)
        s2 == [s1 EXCEPT !.bal[staker] = updatedStake]
        s3 == _decreaseTotal(s2, amount, staker)
        s4 == IF isInitialized(amount)
              THEN allowTransient(s3, amount, Token)
              ELSE s3
        t == confidentialTransfer(s4, staker, amount, c)
    IN  IF t.reverted
        THEN Revert(t.s, "CollaboratorRejected")
        ELSE Done(emit(t.s, "Unstaked", staker, t.transferred, updatedStake),
                  t.transferred)

\* faulty variant: _unstake taking the staker's grant on the superseded
\* balance handle away
_unstake_RevokesOld(s, staker, amount, c) ==
    LET currentStake == s.bal[staker]
        r == tryDecrease(s, currentStake, amount)
        canDecrease == r.success
        updatedStake == r.updated
        sel == selectOrZero(r.s, canDecrease, amount)
        appliedAmount == Top(sel)
        s0 == [sel EXCEPT !.acl = @ \ {<<currentStake, staker>>}]
        s1 == allow(allowThis(s0, updatedStake), updatedStake, staker)
        s2 == [s1 EXCEPT !.bal[staker] = updatedStake]
        s3 == _decreaseTotal(s2, appliedAmount, staker)
        s4 == IF isInitialized(appliedAmount)
              THEN allowTransient(s3, appliedAmount, Token)
              ELSE s3
        t == confidentialTransfer(s4, staker, appliedAmount, c)
    IN  IF t.reverted
        THEN Revert(t.s, "CollaboratorRejected")
        ELSE Done(emit(t.s, "Unstaked", staker, t.transferred, updatedStake),
                  t.transferred)

\* faulty variant: _unstake not storing the updated balance
_unstake_NoStore(s, staker, amount, c) ==
    LET currentStake == s.bal[staker]
        r == tryDecrease(s, currentStake, amount)
        canDecrease == r.success
        updatedStake == r.updated
        sel == selectOrZero(r.s, canDecrease, amount)
        appliedAmount == Top(sel)
        s1 == allow(allowThis(sel, updatedStake), updatedStake, staker)
        s3 == _decreaseTotal(s1, appliedAmount, staker)
        s4 == IF isInitialized(appliedAmount)
              THEN allowTransient(s3, appliedAmount, Token)
              ELSE s3
        t == confidentialTransfer(s4, staker, appliedAmount, c)
    IN  IF t.reverted
        THEN Revert(t.s, "CollaboratorRejected")
        ELSE Done(emit(t.s, "Unstaked", staker, t.transferred, updatedStake),
                  t.transferred)

\* faulty variant: _unstake reverting, on the decrypted comparison, when the
\* amount exceeds the balance
_unstake_RevertsOnUnderflow(s, staker, amount, c) ==
    LET currentStake == s.bal[staker]
        r == tryDecrease(s, currentStake, amount)
        canDecrease == r.success
        updatedStake == r.updated
        s1 == allow(allowThis(r.s, updatedStake), updatedStake, staker)
        s2 == [s1 EXCEPT !.bal[staker] = updatedStake]
        s3 == _decreaseTotal(s2, amount, staker)
        s4 == IF isInitialized(amount)
              THEN allowTransient(s3, amount, Token)
              ELSE s3
        t == confidentialTransfer(s4, staker, amount, c)
    IN  IF ~canDecrease
        THEN Revert(s, "InsufficientStake")
        ELSE IF t.reverted
             THEN Revert(t.s, "CollaboratorRejected")
             ELSE Done(emit(t.s, "Unstaked", staker, t.transferred, updatedStake),
                       t.transferred)

_unstake(s, staker, amount, c) ==
    LET d == _unstakeDebit(s, staker, amount)
    IN  _unstakeSettle(confidentialTransfer(d.s, staker, d.appliedAmount, c),
                       staker, d.updatedStake)

\* stake(externalEuint64 encryptedAmount, bytes inputProof)
stake(sender, v, proofOk, c) ==
    LET e == fromExternal(Current, v, proofOk)
    IN  IF e.reverted
        THEN Revert(Current, "InvalidInputProof")
        ELSE _stake(e.s, sender, e.amount, c)

\* faulty variant: stake(euint64) without the isAllowed check
stakeEuint64_NoGate(sender, amount, c) ==
    _stake(Current, sender, amount, c)

\* stake(euint64 amount)
stakeEuint64(sender, amount, c) ==
    IF ~isAllowed(Current, amount, sender)
    THEN Revert(Current, "UnauthorizedEncryptedAmount")
    ELSE _stake(Current, sender, amount, c)

\* unstake(externalEuint64 encryptedAmount, bytes inputProof)
unstake(sender, v, proofOk, c) ==
    LET e == fromExternal(Current, v, proofOk)
    IN  IF e.reverted
        THEN Revert(Current, "InvalidInputProof")
        ELSE _unstake(e.s, sender, e.amount, c)

\* unstake(euint64 amount)
unstakeEuint64(sender, amount, c) ==
    IF ~isAllowed(Current, amount, sender)
    THEN Revert(Current, "UnauthorizedEncryptedAmount")
    ELSE _unstake(Current, sender, amount, c)

\* -------------------------------------------------------- transactions
\* the ledger state a transaction starts from
Snapshot ==
    [bal |-> stakedBalances, total |-> totalStaked, acl |-> acl,
     ev |-> events, cust |-> custody, handles |-> Len(ciphertexts)]

\* a transaction commits the state its call left, or reverts to the state
\* it started from; `last` records the call
RECURSIVE NetIn(_, _)
\* what the custody invocations cc moved from account a to the ledger, less
\* what they moved from the ledger to a
NetIn(cc, a) ==
    IF cc = <<>> THEN 0
    ELSE LET call == cc[1]
         IN  NetIn(Tail(cc), a)
               + (IF call.from = a /\ call.to = Ledger THEN call.moved ELSE 0)
               - (IF call.from = Ledger /\ call.to = a THEN call.moved ELSE 0)

RECURSIVE AskedOut(_, _)
\* what the custody invocations cc were asked to move from the ledger to
\* account a
AskedOut(cc, a) ==
    IF cc = <<>> THEN 0
    ELSE AskedOut(Tail(cc), a)
           + (IF cc[1].from = Ledger /\ cc[1].to = a THEN cc[1].asked ELSE 0)

\* by how much the call that left state s raised the stored balance of a
Credited(s, a) ==
    LET before == Value(Current, stakedBalances[a])
        after == Value(s, s.bal[a])
    IN  IF after > before THEN after - before ELSE 0

CommitCall(limit, op, sender, amount, requested, r) ==
    /\ methToken # NoLedger
    /\ ncalls < limit
    /\ ncalls' = ncalls + 1
    /\ collateral' = IF r.outcome = "ok"
                     THEN [a \in Accounts |-> collateral[a] + NetIn(r.s.cc, a)]
                     ELSE collateral
    /\ cumulative' = IF r.outcome = "ok"
                     THEN [a \in Accounts |->
                             [credited |-> cumulative[a].credited + Credited(r.s, a),
                              askedOut |-> cumulative[a].askedOut + AskedOut(r.s.cc, a)]]
                     ELSE cumulative
    /\ last' = [op |-> op, sender |-> sender, amount |-> amount,
                requested |-> requested, outcome |-> r.outcome, ret |-> r.ret,
                cc |-> r.s.cc, pre |-> Snapshot, granted |-> r.s.granted,
                nested |-> r.s.nested]
    /\ IF r.outcome = "ok"
       THEN /\ stakedBalances' = r.s.bal
            /\ totalStaked' = r.s.total
            /\ ciphertexts' = r.s.ct
            /\ acl' = r.s.acl
            /\ events' = r.s.ev
            /\ custody' = r.s.cust
       ELSE UNCHANGED <<stakedBalances, totalStaked, ciphertexts, acl, events, custody>>
    /\ UNCHANGED frontEnd

\* a transaction of a run on its own
Commit(op, sender, amount, requested, r) ==
    /\ CommitCall(MaxCalls, op, sender, amount, requested, r)
    /\ UNCHANGED <<methToken, twin>>

\* the handles an account can present to the euint64 entry points: the
\* uninitialized one, those it reads from stakedBalanceOf and
\* confidentialTotalStaked, and the one the last call returned
KnownHandles ==
    {0, totalStaked, last.ret} \cup {stakedBalances[a] : a \in Accounts}

\* a ciphertext whose proof does not verify carries no amount
NoAmount == 0

\* the custody choice of a call that reverts before it reaches the token
NotInvoked == [kind |-> "reject", cap |-> 0]

Stake ==
    \E sender \in Accounts, v \in Amounts, c \in CustodyChoices :
        Commit("stake", sender, Len(ciphertexts) + 1, v, stake(sender, v, TRUE, c))

StakeInvalidProof ==
    \E sender \in Accounts :
        Commit("stake", sender, 0, NoAmount, stake(sender, NoAmount, FALSE, NotInvoked))

StakeEuint64 ==
    \E sender \in Accounts, amount \in KnownHandles :
        \E c \in IF isAllowed(Current, amount, sender) THEN CustodyChoices ELSE {NotInvoked} :
            Commit("stakeEuint64", sender, amount, Value(Current, amount),
                   stakeEuint64(sender, amount, c))

Unstake ==
    \E sender \in Accounts, v \in Amounts, c \in CustodyChoices :
        Commit("unstake", sender, Len(ciphertexts) + 1, v, unstake(sender, v, TRUE, c))

UnstakeInvalidProof ==
    \E sender \in Accounts :
        Commit("unstake", sender, 0, NoAmount, unstake(sender, NoAmount, FALSE, NotInvoked))

UnstakeEuint64 ==
    \E sender \in Accounts, amount \in KnownHandles :
        \E c \in IF isAllowed(Current, amount, sender) THEN CustodyChoices ELSE {NotInvoked} :
            Commit("unstakeEuint64", sender, amount, Value(Current, amount),
                   unstakeEuint64(sender, amount, c))

\* ERC7984ETH.mintFree(): one mETH for the caller
mintFree(s, sender) == [s EXCEPT !.cust[sender] = @ + ONE_METH]

MintFree ==
    \E sender \in Accounts :
        Commit("mintFree", sender, 0, ONE_METH, Done(mintFree(Current, sender), 0))


\* ===================================================================
\* StakingApp (src/unnamed/part_003), the front end.  A string is a sequence
\* of one-character strings; undefined and null are the strings below.
\* ===================================================================
Undefined == "undefined"

\* ---------------------------------------------------- amounts as text
MICRO_FACTOR == 1000000

\* whole mETH in the amounts formatted and typed
MaxUnits == 11
\* fractions formatted are m * 10^j micro-units, m up to MaxMantissa
MaxMantissa == 12
\* characters typed into an amount field
MaxTyped == 8

Digits == <<"0", "1", "2", "3", "4", "5", "6", "7", "8", "9">>
IsDigit(ch) == \E d \in 0 .. 9 : Digits[d + 1] = ch
DigitOf(ch) == CHOOSE d \in 0 .. 9 : Digits[d + 1] = ch
AllDigits(str) == \A i \in 1 .. Len(str) : IsDigit(str[i])

\* BigInt.prototype.toString(), of a value that is not negative
RECURSIVE toString(_)
toString(n) ==
    IF n < 10 THEN <<Digits[n + 1]>>
    ELSE Append(toString(n \div 10), Digits[(n % 10) + 1])

\* BigInt(str) of a string of decimal digits; BigInt('') is 0n
RECURSIVE BigInt(_)
BigInt(str) ==
    IF str = <<>> THEN 0
    ELSE 10 * BigInt(SubSeq(str, 1, Len(str) - 1)) + DigitOf(str[Len(str)])

\* String.prototype.padStart(targetLength, ch)
RECURSIVE padStart(_, _, _)
padStart(str, targetLength, ch) ==
    IF Len(str) >= targetLength THEN str
    ELSE padStart(<<ch>> \o str, targetLength, ch)

\* str.replace(/0+$/u, '')
RECURSIVE stripTrailingZeros(_)
stripTrailingZeros(str) ==
    IF str # <<>> /\ str[Len(str)] = "0"
    THEN stripTrailingZeros(SubSeq(str, 1, Len(str) - 1))
    ELSE str

\* String.prototype.trim(); the only white space typed is the blank
RECURSIVE trim(_)
trim(str) ==
    IF str # <<>> /\ str[1] = " " THEN trim(Tail(str))
    ELSE IF str # <<>> /\ str[Len(str)] = " " THEN trim(SubSeq(str, 1, Len(str) - 1))
    ELSE str

\* str.slice(0, end)
slice(str, end) == SubSeq(str, 1, Min(end, Len(str)))

\* str.split('.')
RECURSIVE split(_)
split(str) ==
    IF \A i \in 1 .. Len(str) : str[i] # "." THEN <<str>>
    ELSE LET i == CHOOSE j \in 1 .. Len(str) :
                      str[j] = "." /\ \A k \in 1 .. j - 1 : str[k] # "."
         IN  <<SubSeq(str, 1, i - 1)>> \o split(SubSeq(str, i + 1, Len(str)))

\* /^\d*(\.\d{0,18})?$/u.test(str)
matchesAmount(str) ==
    \/ AllDigits(str)
    \/ \E i \in 1 .. Len(str) :
           /\ str[i] = "."
           /\ AllDigits(SubSeq(str, 1, i - 1))
           /\ AllDigits(SubSeq(str, i + 1, Len(str)))
           /\ Len(str) - i <= 18

\* faulty variant: formatMicroValue without padStart(6, '0')
formatMicroValue_NoPad(value) ==
    LET absolute == IF value < 0 THEN -value ELSE value
        integer == absolute \div MICRO_FACTOR
        fractional == absolute % MICRO_FACTOR
        fractionString == stripTrailingZeros(toString(fractional))
        formattedFraction == IF Len(fractionString) > 0
                             THEN <<".">> \o fractionString
                             ELSE <<>>
        prefix == IF value < 0 THEN <<"-">> ELSE <<>>
    IN  prefix \o toString(integer) \o formattedFraction

formatMicroValue(value) ==
    LET absolute == IF value < 0 THEN -value ELSE value
        integer == absolute \div MICRO_FACTOR
        fractional == absolute % MICRO_FACTOR
        fractionString == stripTrailingZeros(padStart(toString(fractional), 6, "0"))
        formattedFraction == IF Len(fractionString) > 0
                             THEN <<".">> \o fractionString
                             ELSE <<>>
        prefix == IF value < 0 THEN <<"-">> ELSE <<>>
    IN  prefix \o toString(integer) \o formattedFraction

\* bigint | null
Null == [null |-> TRUE, value |-> 0]
Some(v) == [null |-> FALSE, value |-> v]

parseAmountToMicro(rawValue) ==
    LET value == trim(rawValue)
        parts == split(value)
        integerPart == parts[1]
        fractionPart == IF Len(parts) >= 2 THEN parts[2] ELSE <<>>
        sanitizedInteger == IF integerPart = <<>> THEN <<"0">> ELSE integerPart
        sanitizedFraction == slice(fractionPart \o <<"0", "0", "0", "0", "0", "0">>, 6)
    IN  IF value = <<>> THEN Null
        ELSE IF ~matchesAmount(value) THEN Null
        ELSE IF ~(AllDigits(sanitizedInteger) /\ AllDigits(sanitizedFraction)) THEN Null
        ELSE Some(BigInt(sanitizedInteger) * MICRO_FACTOR + BigInt(sanitizedFraction))

\* the micro-unit values formatted
MicroValues ==
    {u * MICRO_FACTOR + f :
        u \in 0 .. MaxUnits,
        f \in {g \in {m * (10 ^ j) : m \in 0 .. MaxMantissa, j \in 0 .. 5} :
                  g < MICRO_FACTOR}}

\* the keys pressed in an amount field
Keys == {"0", "9", ".", " "}

\* the whole units the text typed so far stands for, when it is digits
TypedUnits(str) ==
    LET integerPart == split(trim(str))[1]
    IN  IF AllDigits(integerPart) THEN BigInt(integerPart) ELSE 0

\* ------------------------------------------------ StakingApp: its state
\* the handle of a value that was never written
ZERO_HASH == "0x0000000000000000000000000000000000000000000000000000000000000000"

\* decryptError when there is none
NoError == "null"

\* feedback when there is none (null), and the two kinds that are shown
NoFeedback == [type |-> "none", message |-> "", amount |-> <<>>]

\* message, and the amount formatted into it when there is one
Success(message, amount) == [type |-> "success", message |-> message, amount |-> amount]

Failure(message) == [type |-> "error", message |-> message, amount |-> <<>>]

ZeroBalances == [wallet |-> 0, staked |-> 0, total |-> 0]

\* the connected account, when there is one
Wallets == {"0xA11CE"}

\* what the reads return together: nothing yet, the total alone (the reads
\* of an account wait for an address), handles never written, and the
\* handles of ciphertexts, before and after a stake through the operator
Reads ==
    {[walletHandle |-> Undefined, stakedHandle |-> Undefined,
      totalHandle |-> Undefined, operatorActive |-> FALSE],
     [walletHandle |-> Undefined, stakedHandle |-> Undefined,
      totalHandle |-> "0xca", operatorActive |-> FALSE],
     [walletHandle |-> ZERO_HASH, stakedHandle |-> ZERO_HASH,
      totalHandle |-> "0x0", operatorActive |-> FALSE],
     [walletHandle |-> "0xaa", stakedHandle |-> ZERO_HASH,
      totalHandle |-> "0xca", operatorActive |-> FALSE],
     [walletHandle |-> "0xab", stakedHandle |-> "0xba",
      totalHandle |-> "0xca", operatorActive |-> TRUE]}

\* what the relayer decrypts a handle to
Cleartext(handle) ==
    CASE handle = "0xaa" -> 5 * MICRO_FACTOR
      [] handle = "0xab" -> 3 * MICRO_FACTOR
      [] handle = "0xba" -> 2 * MICRO_FACTOR
      [] OTHER -> 7 * MICRO_FACTOR

HandlerNames == {"handleMint", "handleSetOperator", "handleStake", "handleUnstake"}

\* useZamaInstance: the instance is null while it loads and after an error
ZamaStates == {"loading", "error", "ready"}

\* a handler that is not running
Idle ==
    [pc |-> "idle", parsedAmount |-> 0, valid |-> TRUE,
     encrypted |-> FALSE, submitted |-> FALSE]

\* no handler invocation ended in the step just taken
NoneFinished ==
    [name |-> "none", failed |-> FALSE, valid |-> TRUE,
     flagSet |-> FALSE, encrypted |-> FALSE, submitted |-> FALSE,
     loading |-> FALSE, feedback |-> "none", touched |-> {}]

\* the values of the hooks and of useState at the first render, after the
\* first run of the decrypt effect (no address: the balances are reset)
FirstRender ==
    [address |-> Undefined, instance |-> "loading", signerPromise |-> Undefined,
     walletHandle |-> Undefined, stakedHandle |-> Undefined, totalHandle |-> Undefined,
     operatorActive |-> FALSE,
     stakeAmount |-> <<>>, unstakeAmount |-> <<>>,
     minting |-> FALSE, operatorLoading |-> FALSE,
     stakeLoading |-> FALSE, unstakeLoading |-> FALSE,
     decrypting |-> FALSE, decryptError |-> NoError,
     feedback |-> NoFeedback, balances |-> ZeroBalances]

\* ------------------------------------------------ the component at mount
\* runs: the run() closures of the decrypt effect, oldest first, with what
\* each has written since its first await.  shown and finished are history:
\* who wrote the balances that are displayed, and the handler invocation
\* that ended in the step just taken.
Mounted ==
    /\ amountField = [text |-> <<>>, value |-> 0, origin |-> "typed",
                      parsed |-> Null, stage |-> "text"]
    /\ app = FirstRender
    /\ runs = <<>>
    /\ handlers = [name \in HandlerNames |-> Idle]
    /\ shown = [by |-> "reset", run |-> 0]
    /\ finished = NoneFinished

\* The ledger is constructed over a custody token that is already running:
\* its books are its own, any IERC7984 will do.  Every account starts with
\* the largest balance an euint64 holds, the ledger with none.
NothingStaked ==
    /\ stakedBalances = [a \in Accounts |-> 0]
    /\ totalStaked = 0
    /\ ciphertexts = <<0>>
    /\ acl = {}
    /\ events = <<>>
    /\ custody = [p \in Accounts \cup {Ledger} |-> IF p = Ledger THEN 0 ELSE MaxUint]
    /\ last = [op |-> "none", sender |-> ZeroAddress, amount |-> 0, requested |-> 0,
               outcome |-> "ok", ret |-> 0, cc |-> <<>>, pre |-> Snapshot,
               granted |-> {}, nested |-> <<>>]
    /\ ncalls = 0
    /\ collateral = [a \in Accounts |-> 0]
    /\ cumulative = [a \in Accounts |-> [credited |-> 0, askedOut |-> 0]]
    /\ twin = [s |-> Current, outcome |-> "ok", varied |-> {}]
    /\ Mounted

Init ==
    /\ NothingStaked
    /\ methToken = Token

Next ==
    \/ Stake
    \/ StakeInvalidProof
    \/ StakeEuint64
    \/ Unstake
    \/ UnstakeInvalidProof
    \/ UnstakeEuint64
    \/ MintFree

Spec == Init /\ [][Next]_vars

\* ---------------------------------------------------------------------
\* The deployment: the ledger does not exist until its constructor has
\* completed.

\* faulty variant: the constructor without the check of the address
constructor_NoCheck(tokenAddress) ==
    [outcome |-> "ok", methToken |-> tokenAddress]

\* constructor(address tokenAddress)
constructor(tokenAddress) ==
    IF tokenAddress = ZeroAddress
    THEN [outcome |-> "InvalidTokenAddress", methToken |-> NoLedger]
    ELSE [outcome |-> "ok", methToken |-> tokenAddress]

\* token()
token == methToken

\* the addresses a deployer passes to the constructor
TokenAddresses == {ZeroAddress, Token}

Construct ==
    \E tokenAddress \in TokenAddresses :
        LET r == constructor(tokenAddress)
        IN  /\ methToken = NoLedger
            /\ methToken' = r.methToken
            /\ last' = [op |-> "constructor", sender |-> ZeroAddress, amount |-> 0,
                        requested |-> 0, outcome |-> r.outcome, ret |-> 0,
                        cc |-> <<>>, pre |-> Snapshot, tokenAddress |-> tokenAddress]
            /\ UNCHANGED <<stakedBalances, totalStaked, ciphertexts, acl, events,
                           custody, ncalls, collateral, cumulative, twin, frontEnd>>

NotDeployed ==
    /\ NothingStaked
    /\ methToken = NoLedger

NextDeploy ==
    \/ Construct
    \/ Next

SpecDeploy == NotDeployed /\ [][NextDeploy]_vars

\* ---------------------------------------------------------------------
\* Longer runs, against a custody token that moves all it is asked to and
\* with callers that use the entry points taking an input proof.
MovesAll == [kind |-> "move", cap |-> MaxUint]

CommitFull(op, sender, amount, requested, r) ==
    /\ CommitCall(MaxFullCalls, op, sender, amount, requested, r)
    /\ UNCHANGED <<methToken, twin>>

StakeFull ==
    \E sender \in Accounts, v \in Amounts :
        CommitFull("stake", sender, Len(ciphertexts) + 1, v, stake(sender, v, TRUE, MovesAll))

UnstakeFull ==
    \E sender \in Accounts, v \in Amounts :
        CommitFull("unstake", sender, Len(ciphertexts) + 1, v, unstake(sender, v, TRUE, MovesAll))

MintFreeFull ==
    \E sender \in Accounts :
        CommitFull("mintFree", sender, 0, ONE_METH, Done(mintFree(Current, sender), 0))

NextFull ==
    \/ StakeFull
    \/ UnstakeFull
    \/ MintFreeFull

SpecFull == Init /\ [][NextFull]_vars

\* ---------------------------------------------------------------------
\* The queries, asked by the accounts and by a caller that holds no grant,
\* between the calls of a run.
Outsider == "carol"
Callers == Accounts \cup {Outsider}

\* faulty variant: stakedBalanceOf answering only a caller that holds a
\* grant on the stored handle
stakedBalanceOf_Gated(caller, account) ==
    IF isAllowed(Current, stakedBalances[account], caller)
    THEN Done(Current, stakedBalances[account])
    ELSE Revert(Current, "UnauthorizedEncryptedAmount")

\* stakedBalanceOf(address account), called by caller
stakedBalanceOf(caller, account) == Done(Current, stakedBalances[account])

\* confidentialTotalStaked(), called by caller
confidentialTotalStaked(caller) == Done(Current, totalStaked)

\* a view call: it leaves what the function leaves, and is not counted
View(op, caller, account, r) ==
    /\ methToken # NoLedger
    /\ last' = [op |-> op, sender |-> caller, amount |-> 0, requested |-> 0,
                outcome |-> r.outcome, ret |-> r.ret, cc |-> r.s.cc,
                pre |-> Snapshot, account |-> account]
    /\ stakedBalances' = r.s.bal
    /\ totalStaked' = r.s.total
    /\ ciphertexts' = r.s.ct
    /\ acl' = r.s.acl
    /\ events' = r.s.ev
    /\ custody' = r.s.cust
    /\ UNCHANGED <<ncalls, collateral, cumulative, methToken, twin, frontEnd>>

StakedBalanceOf ==
    \E caller \in Callers, account \in Accounts :
        View("stakedBalanceOf", caller, account, stakedBalanceOf(caller, account))

ConfidentialTotalStaked ==
    \E caller \in Callers :
        View("confidentialTotalStaked", caller, ZeroAddress, confidentialTotalStaked(caller))

NextQuery ==
    \/ NextFull
    \/ StakedBalanceOf
    \/ ConfidentialTotalStaked

SpecQuery == Init /\ [][NextQuery]_vars

\* ---------------------------------------------------------------------
\* Runs against a custody token that, from inside the transfer it is
\* invoked for, has an account call stake or unstake, and then moves all
\* it is asked to.
ReenterChoices ==
    [kind : {"reenter"}, cap : {MaxUint}, then : {MovesAll},
     call : [op : {"stake", "unstake"}, sender : Accounts, v : Amounts, c : {MovesAll}]]

CommitReenter(op, sender, amount, requested, r) ==
    /\ CommitCall(MaxReenterCalls, op, sender, amount, requested, r)
    /\ UNCHANGED <<methToken, twin>>

StakeReenter ==
    \E sender \in Accounts, v \in Amounts, c \in ReenterChoices :
        CommitReenter("stake", sender, Len(ciphertexts) + 1, v, stake(sender, v, TRUE, c))

UnstakeReenter ==
    \E sender \in Accounts, v \in Amounts, c \in ReenterChoices :
        CommitReenter("unstake", sender, Len(ciphertexts) + 1, v, unstake(sender, v, TRUE, c))

NextReenter ==
    \/ StakeReenter
    \/ UnstakeReenter

SpecReenter == Init /\ [][NextReenter]_vars

\* ---------------------------------------------------------------------
\* Two runs side by side: the same callers make the same calls, the custody
\* token makes the same choice, and only the cleartexts that the callers
\* encrypt may differ (v in the run of the variables, w in the run of twin).
\* twin.varied collects the callers whose amounts have differed.
TwinStart == [twin.s EXCEPT !.tr = {}, !.cc = <<>>, !.granted = {}, !.nested = <<>>]

\* the call in the second run: stake / unstake(externalEuint64, bytes)
TwinCall(op, sender, w, c) ==
    LET e == fromExternal(TwinStart, w, TRUE)
    IN  IF op = "stake"
        THEN _stake(e.s, sender, e.amount, c)
        ELSE _unstake(e.s, sender, e.amount, c)

CommitPair(op, sender, v, w, r, r2) ==
    /\ CommitCall(MaxPairCalls, op, sender, Len(ciphertexts) + 1, v, r)
    /\ twin' = [s |-> IF r2.outcome = "ok"
                      THEN r2.s
                      ELSE [TwinStart EXCEPT !.cc = r2.s.cc],
                outcome |-> r2.outcome,
                varied |-> twin.varied \cup (IF v # w THEN {sender} ELSE {})]
    /\ UNCHANGED methToken

StakePair ==
    \E sender \in Accounts, v \in Amounts, w \in Amounts, c \in CustodyChoices :
        CommitPair("stake", sender, v, w,
                   stake(sender, v, TRUE, c), TwinCall("stake", sender, w, c))

UnstakePair ==
    \E sender \in Accounts, v \in Amounts, w \in Amounts, c \in CustodyChoices :
        CommitPair("unstake", sender, v, w,
                   unstake(sender, v, TRUE, c), TwinCall("unstake", sender, w, c))

NextPair ==
    \/ StakePair
    \/ UnstakePair

SpecPair == Init /\ [][NextPair]_vars

\* ------------------------------------------- StakingApp: amounts as text
\* formatMicroValue(value), of a value that is not negative, into an empty
\* field
FormatMicroValue ==
    \E value \in MicroValues :
        /\ amountField.text = <<>>
        /\ amountField' = [text |-> formatMicroValue(value), value |-> value,
                           origin |-> "formatted", parsed |-> Null, stage |-> "text"]
        /\ UNCHANGED <<onChain, app, runs, handlers, shown, finished>>

\* a key pressed in an amount field: onChange sets the field to what is typed
TypeKey ==
    \E key \in Keys :
        LET text == IF amountField.origin = "typed"
                    THEN Append(amountField.text, key)
                    ELSE <<key>>
        IN  /\ Len(text) <= MaxTyped
            /\ TypedUnits(text) <= MaxUnits
            /\ amountField' = [text |-> text, value |-> 0, origin |-> "typed",
                               parsed |-> Null, stage |-> "text"]
            /\ UNCHANGED <<onChain, app, runs, handlers, shown, finished>>

\* parseAmountToMicro(rawValue), of the text in the field
ParseAmountToMicro ==
    /\ amountField.stage = "text"
    /\ amountField' = [amountField EXCEPT !.parsed = parseAmountToMicro(amountField.text),
                                          !.stage = "parsed"]
    /\ UNCHANGED <<onChain, app, runs, handlers, shown, finished>>

NextAmount ==
    \/ FormatMicroValue
    \/ TypeKey
    \/ ParseAmountToMicro

SpecAmount == Init /\ [][NextAmount]_vars

\* ------------------------------------- StakingApp: the decrypt effect
MaxRuns == 2

\* the component with its run() closures, as an effect or a callback sees it
World == [app |-> app, runs |-> runs, shown |-> shown]

\* the dependency list of the decrypt effect
dependencies(a) ==
    <<a.address, a.instance = "ready", a.signerPromise,
      a.walletHandle, a.stakedHandle, a.totalHandle>>

isConnected(a) == a.address # Undefined

zamaLoading(a) == a.instance = "loading"

pushHandle(handles, handle, contractAddress) ==
    IF handle = Undefined THEN handles
    ELSE IF handle = ZERO_HASH \/ handle = "0x0" THEN handles
    ELSE Append(handles, [handle |-> handle, contractAddress |-> contractAddress])

\* the handles the effect asks the relayer to decrypt
handleContractPairs(a) ==
    pushHandle(pushHandle(pushHandle(<<>>, a.walletHandle, "ERC7984ETH_ADDRESS"),
                          a.stakedHandle, "METH_STAKING_ADDRESS"),
               a.totalHandle, "METH_STAKING_ADDRESS")

\* getValue(handle) over the result of userDecrypt
getValue(result, handle) ==
    IF handle = Undefined \/ handle = ZERO_HASH \/ handle = "0x0" THEN 0
    ELSE IF handle \notin DOMAIN result THEN 0
    ELSE result[handle]

\* a run between its first await and its end
inFlight(r) == r.pc \in {"signerPromise", "signTypedData", "userDecrypt"}

\* the cleanup of the effect that ran before: cancelled = true in the
\* closure of the run it started, if it started one.  Nothing reads the
\* flag of a run that has ended: it stays as it was when the run ended.
cleanup(rs) ==
    IF rs = <<>> THEN rs
    ELSE IF ~inFlight(rs[Len(rs)]) THEN rs
    ELSE [rs EXCEPT ![Len(rs)].cancelled = TRUE]

\* setBalances(zero); setDecryptError(null); return
resetBalances(w) ==
    [w EXCEPT !.app.balances = ZeroBalances,
              !.app.decryptError = NoError,
              !.shown = [by |-> "reset", run |-> 0]]

\* run(), up to its first await
run(w) ==
    [w EXCEPT !.app.decrypting = TRUE,
              !.app.decryptError = NoError,
              !.runs = Append(@, [cancelled |-> FALSE, pc |-> "signerPromise",
                                  walletHandle |-> w.app.walletHandle,
                                  stakedHandle |-> w.app.stakedHandle,
                                  totalHandle |-> w.app.totalHandle,
                                  wrote |-> "nothing"])]

\* the body of the effect, after the cleanup of the one before
decryptEffect(w) ==
    IF w.app.address = Undefined THEN resetBalances(w)
    ELSE IF w.app.instance # "ready" \/ w.app.signerPromise = Undefined THEN w
    ELSE IF Len(handleContractPairs(w.app)) = 0 THEN resetBalances(w)
    ELSE run(w)

\* a render: when a dependency changed, the cleanup and then the effect
render(w, before) ==
    IF dependencies(w.app) = dependencies(before) THEN w
    ELSE decryptEffect([w EXCEPT !.runs = cleanup(@)])

\* a run that ended: its closure holds nothing that is read again
ended(r, pc, wrote) ==
    [cancelled |-> r.cancelled, pc |-> pc, walletHandle |-> Undefined,
     stakedHandle |-> Undefined, totalHandle |-> Undefined, wrote |-> wrote]

\* catch and finally of run(): an await of run i threw
runCatch(w, i, message) ==
    LET cancelled == w.runs[i].cancelled
    IN  [w EXCEPT !.runs[i] = ended(@, "threw", IF ~cancelled THEN "decryptError"
                                                    ELSE "nothing"),
                  !.app.decryptError = IF ~cancelled THEN message ELSE @,
                  !.app.decrypting = IF ~cancelled THEN FALSE ELSE @]

\* run i after `await instance.userDecrypt(...)`, written without the
\* early return
runDecrypted_Unchecked(w, i, result) ==
    LET r == w.runs[i]
    IN  [w EXCEPT !.runs[i] = ended(@, "done", "balances"),
                  !.app.balances = [wallet |-> getValue(result, r.walletHandle),
                                    staked |-> getValue(result, r.stakedHandle),
                                    total |-> getValue(result, r.totalHandle)],
                  !.app.decrypting = IF ~r.cancelled THEN FALSE ELSE @,
                  !.shown = [by |-> "run", run |-> i]]

\* run i after `await instance.userDecrypt(...)`: if (cancelled) return;
\* setBalances(...); and the finally
runDecrypted(w, i, result) ==
    LET r == w.runs[i]
    IN  IF r.cancelled THEN [w EXCEPT !.runs[i] = ended(@, "returned", "nothing")]
        ELSE [w EXCEPT !.runs[i] = ended(@, "done", "balances"),
                       !.app.balances = [wallet |-> getValue(result, r.walletHandle),
                                         staked |-> getValue(result, r.stakedHandle),
                                         total |-> getValue(result, r.totalHandle)],
                       !.app.decrypting = FALSE,
                       !.shown = [by |-> "run", run |-> i]]

\* what userDecrypt answers for a run: a cleartext for each handle asked, or
\* a map without them
DecryptResults(r) ==
    LET asked == {r.walletHandle, r.stakedHandle, r.totalHandle}
                     \ {Undefined, ZERO_HASH, "0x0"}
    IN  {[handle \in asked |-> Cleartext(handle)], [handle \in {} |-> 0]}

\* the finite choice of what the hooks return in a render
Renders ==
    {[address |-> address, instance |-> instance, signerPromise |-> signerPromise,
      walletHandle |-> reads.walletHandle, stakedHandle |-> reads.stakedHandle,
      totalHandle |-> reads.totalHandle,
      operatorActive |-> reads.operatorActive] :
        address \in Wallets \cup {Undefined}, instance \in ZamaStates,
        signerPromise \in {Undefined, "promise"}, reads \in Reads}

\* the component with the hooks returning h
withHooks(a, h) ==
    [a EXCEPT !.address = h.address, !.instance = h.instance,
              !.signerPromise = h.signerPromise,
              !.walletHandle = h.walletHandle, !.stakedHandle = h.stakedHandle,
              !.totalHandle = h.totalHandle, !.operatorActive = h.operatorActive]

\* The hooks read three stores: the wallet (address and signer), the
\* encryption instance and the contract reads.  One store changes at a
\* time; the reads of an account are enabled only with an address, so they
\* return nothing from the render in which the address goes.
possibleHooks(a, h) ==
    LET wallet == <<h.address, h.signerPromise>> # <<a.address, a.signerPromise>>
        zama == h.instance # a.instance
        reads == <<h.walletHandle, h.stakedHandle, h.totalHandle, h.operatorActive>>
                     # <<a.walletHandle, a.stakedHandle, a.totalHandle, a.operatorActive>>
    IN  /\ wallet \/ zama \/ reads
        /\ zama => ~wallet /\ ~reads
        /\ wallet /\ reads => h.address = Undefined /\ h.totalHandle = a.totalHandle
        /\ h.address = Undefined =>
               /\ h.walletHandle = Undefined
               /\ h.stakedHandle = Undefined
               /\ ~h.operatorActive

\* A hook returns something new (the wallet connects or disconnects, the
\* instance loads, a read is refetched): the component renders again and
\* the effect runs if one of its dependencies changed.
Render ==
    \E h \in Renders :
        LET w == render([World EXCEPT !.app = withHooks(app, h)], app)
        IN  /\ possibleHooks(app, h)
            /\ Len(w.runs) <= MaxRuns
            /\ app' = w.app
            /\ runs' = w.runs
            /\ shown' = w.shown
            /\ finished' = NoneFinished
            /\ UNCHANGED <<onChain, amountField, handlers>>

\* `await signerPromise` of run i settles: with a signer, or the run throws
SignerSettles ==
    \E i \in DOMAIN runs, signer \in {"signer", Undefined} :
        LET w == IF signer = Undefined
                 THEN runCatch(World, i, "Wallet not connected")
                 ELSE [World EXCEPT !.runs[i].pc = "signTypedData"]
        IN  /\ runs[i].pc = "signerPromise"
            /\ app' = w.app
            /\ runs' = w.runs
            /\ shown' = w.shown
            /\ UNCHANGED <<onChain, amountField, handlers, finished>>

\* `await signer.signTypedData(...)` of run i settles
SignatureSettles ==
    \E i \in DOMAIN runs, signed \in BOOLEAN :
        LET w == IF signed
                 THEN [World EXCEPT !.runs[i].pc = "userDecrypt"]
                 ELSE runCatch(World, i, "user rejected the request")
        IN  /\ runs[i].pc = "signTypedData"
            /\ app' = w.app
            /\ runs' = w.runs
            /\ shown' = w.shown
            /\ UNCHANGED <<onChain, amountField, handlers, finished>>

\* `await instance.userDecrypt(...)` of run i resolves
DecryptResolves ==
    \E i \in DOMAIN runs :
        \E result \in DecryptResults(runs[i]) :
            LET w == runDecrypted(World, i, result)
            IN  /\ runs[i].pc = "userDecrypt"
                /\ app' = w.app
                /\ runs' = w.runs
                /\ shown' = w.shown
                /\ UNCHANGED <<onChain, amountField, handlers, finished>>

\* `await instance.userDecrypt(...)` of run i rejects
DecryptRejects ==
    \E i \in DOMAIN runs :
        LET w == runCatch(World, i, "Failed to decrypt balances")
        IN  /\ runs[i].pc = "userDecrypt"
            /\ app' = w.app
            /\ runs' = w.runs
            /\ shown' = w.shown
            /\ UNCHANGED <<onChain, amountField, handlers, finished>>

NextDecrypt ==
    \/ Render
    \/ SignerSettles
    \/ SignatureSettles
    \/ DecryptResolves
    \/ DecryptRejects

SpecDecrypt == Init /\ [][NextDecrypt]_vars

\* ------------------------------------------ StakingApp: the handlers
MaxPending == 1

\* what is entered in an amount field: nothing, a number in exponent
\* notation, a fraction below one micro unit, and an amount
AmountTexts ==
    {<<>>, <<"9", "e", "9">>, <<".", "0", "0", "0", "0", "0", "0", "9">>,
     <<"0", ".", "9">>}

\* useState variable that the handler sets while it runs
loadingFlag(name) ==
    CASE name = "handleMint" -> "minting"
      [] name = "handleSetOperator" -> "operatorLoading"
      [] name = "handleStake" -> "stakeLoading"
      [] OTHER -> "unstakeLoading"

\* the amount field the handler reads
amountField_(name) == IF name = "handleStake" THEN "stakeAmount" ELSE "unstakeAmount"

takesAmount(name) == name \in {"handleStake", "handleUnstake"}

\* `disabled` of the button that invokes the handler
disabled(a, name) ==
    CASE name = "handleMint" -> a.minting \/ ~isConnected(a)
      [] name = "handleSetOperator" ->
             a.operatorActive \/ a.operatorLoading \/ ~isConnected(a)
      [] name = "handleStake" -> a.stakeLoading \/ ~isConnected(a) \/ zamaLoading(a)
      [] OTHER -> a.unstakeLoading \/ ~isConnected(a) \/ zamaLoading(a)

\* the inputs of a handler are all there: a wallet, and for an amount the
\* encryption instance and an amount above 0
validInputs(a, name) ==
    IF ~takesAmount(name) THEN a.signerPromise # Undefined
    ELSE /\ a.signerPromise # Undefined
         /\ a.address # Undefined
         /\ a.instance = "ready"
         /\ ~parseAmountToMicro(a[amountField_(name)]).null
         /\ parseAmountToMicro(a[amountField_(name)]).value > 0

\* faulty variant: parsedAmount === 0n is not refused
rejects_ZeroAccepted(a, name) ==
    IF ~takesAmount(name)
    THEN IF a.signerPromise = Undefined THEN "Wallet not connected" ELSE ""
    ELSE IF a.signerPromise = Undefined \/ a.instance # "ready" \/ a.address = Undefined
         THEN "Missing wallet connection or encryption service"
         ELSE IF parseAmountToMicro(a[amountField_(name)]) = Null
              THEN "Enter a valid amount greater than 0"
              ELSE ""

\* what the handler throws before it sets its loading flag ("": nothing)
rejects(a, name) ==
    IF ~takesAmount(name)
    THEN IF a.signerPromise = Undefined THEN "Wallet not connected" ELSE ""
    ELSE IF a.signerPromise = Undefined \/ a.instance # "ready" \/ a.address = Undefined
         THEN "Missing wallet connection or encryption service"
         ELSE IF \/ parseAmountToMicro(a[amountField_(name)]) = Null
                 \/ parseAmountToMicro(a[amountField_(name)]) = Some(0)
              THEN "Enter a valid amount greater than 0"
              ELSE ""

\* withFeedback(operation) up to the first await of the operation
invoke(a, name) ==
    LET cleared == [a EXCEPT !.feedback = NoFeedback]
    IN  IF rejects(a, name) # ""
        THEN [cleared EXCEPT !.feedback = Failure(rejects(a, name))]
        ELSE [cleared EXCEPT ![loadingFlag(name)] = TRUE]

\* the invocation that invoke(a, name) leaves pending
pending(a, name) ==
    [pc |-> "signerPromise",
     parsedAmount |-> IF takesAmount(name)
                      THEN parseAmountToMicro(a[amountField_(name)]).value
                      ELSE 0,
     valid |-> validInputs(a, name),
     encrypted |-> FALSE, submitted |-> FALSE]

\* faulty variant: the loading flag is cleared after the try block, not in
\* a finally
thrown_NoFinally(a, name, message) ==
    [a EXCEPT !.feedback = Failure(message)]

\* an await of the handler threw: its finally, then the catch of
\* withFeedback
thrown(a, name, message) ==
    [a EXCEPT ![loadingFlag(name)] = FALSE,
              !.feedback = Failure(message)]

\* the success message of the handler
succeeded(name, parsedAmount) ==
    CASE name = "handleMint" -> Success("Successfully minted 1 mETH", <<>>)
      [] name = "handleSetOperator" ->
             Success("Operator permission granted to staking contract", <<>>)
      [] name = "handleStake" -> Success("Staked", formatMicroValue(parsedAmount))
      [] OTHER -> Success("Unstake requested for", formatMicroValue(parsedAmount))

\* the await the handler is at resolved: the component and the invocation
\* at the next await, or after the finally
resolved(a, invocation, name) ==
    CASE invocation.pc = "signerPromise" ->
             [app |-> a,
              invocation |-> IF takesAmount(name)
                             THEN [invocation EXCEPT !.pc = "encrypt", !.encrypted = TRUE]
                             ELSE [invocation EXCEPT !.pc = "send", !.submitted = TRUE]]
      [] invocation.pc = "encrypt" ->
             [app |-> a,
              invocation |-> [invocation EXCEPT !.pc = "send", !.submitted = TRUE]]
      [] invocation.pc = "send" ->
             [app |-> a, invocation |-> [invocation EXCEPT !.pc = "wait"]]
      [] invocation.pc = "wait" ->
             [app |-> IF takesAmount(name)
                      THEN [a EXCEPT !.feedback = succeeded(name, invocation.parsedAmount),
                                     ![amountField_(name)] = <<>>]
                      ELSE [a EXCEPT !.feedback = succeeded(name, invocation.parsedAmount)],
              invocation |-> [invocation EXCEPT !.pc = "refreshReads"]]
      [] OTHER ->
             [app |-> [a EXCEPT ![loadingFlag(name)] = FALSE],
              invocation |-> Idle]

\* what is remembered of an invocation of the handler that ended, leaving
\* the component as a: how it ended, what it had done, the loading flag and
\* the kind of feedback it left, and the state it changed since `before`
ending(a, before, invocation, name, failed) ==
    [name |-> name, failed |-> failed, valid |-> invocation.valid,
     flagSet |-> invocation.pc # "idle",
     encrypted |-> invocation.encrypted, submitted |-> invocation.submitted,
     loading |-> a[loadingFlag(name)], feedback |-> a.feedback.type,
     touched |-> {field \in DOMAIN a : a[field] # before[field]}]

Pending == {name \in HandlerNames : handlers[name].pc # "idle"}

\* onChange of an amount input that is not disabled
SetAmount ==
    \E name \in {"handleStake", "handleUnstake"}, text \in AmountTexts :
        /\ isConnected(app) /\ ~zamaLoading(app)
        /\ app[amountField_(name)] # text
        /\ app' = [app EXCEPT ![amountField_(name)] = text]
        /\ finished' = NoneFinished
        /\ UNCHANGED <<onChain, amountField, runs, handlers, shown>>

\* a button that is not disabled is pressed: the handler runs to its first
\* await, or ends there when it throws
Invoke ==
    \E name \in HandlerNames :
        /\ ~disabled(app, name)
        /\ handlers[name].pc = "idle"
        /\ Cardinality(Pending) < MaxPending
        /\ app' = invoke(app, name)
        /\ IF invoke(app, name)[loadingFlag(name)]
           THEN /\ handlers' = [handlers EXCEPT ![name] = pending(app, name)]
                /\ finished' = NoneFinished
           ELSE /\ finished' = ending(invoke(app, name), app,
                                      [Idle EXCEPT !.valid = validInputs(app, name)],
                                      name, TRUE)
                /\ UNCHANGED handlers
        /\ UNCHANGED <<onChain, amountField, runs, shown>>

\* the promise a handler awaits resolves
AwaitResolves ==
    \E name \in HandlerNames :
        LET after == resolved(app, handlers[name], name)
        IN  /\ handlers[name].pc # "idle"
            /\ app' = after.app
            /\ handlers' = [handlers EXCEPT ![name] = after.invocation]
            /\ finished' = IF after.invocation.pc = "idle"
                           THEN ending(after.app, after.app, handlers[name], name, FALSE)
                           ELSE NoneFinished
            /\ UNCHANGED <<onChain, amountField, runs, shown>>

\* the promise a handler awaits rejects (the signer is undefined, the user
\* refuses, the transaction reverts)
AwaitRejects ==
    \E name \in HandlerNames :
        /\ handlers[name].pc # "idle"
        /\ app' = thrown(app, name, IF handlers[name].pc = "signerPromise"
                                    THEN "Wallet not connected"
                                    ELSE "transaction failed")
        /\ handlers' = [handlers EXCEPT ![name] = Idle]
        /\ finished' = ending(app', app', handlers[name], name, TRUE)
        /\ UNCHANGED <<onChain, amountField, runs, shown>>

\* the wallet or the encryption instance changes while the reads stay
WalletChanges ==
    /\ Render
    /\ <<app'.walletHandle, app'.stakedHandle, app'.totalHandle>>
           = <<app.walletHandle, app.stakedHandle, app.totalHandle>>

NextHandlers ==
    \/ WalletChanges
    \/ SetAmount
    \/ Invoke
    \/ AwaitResolves
    \/ AwaitRejects

SpecHandlers == Init /\ [][NextHandlers]_vars

\* ===================================================================
\* Properties.  They are stated over the last transaction: `last` holds the
\* call, its outcome, the custody invocations it made and the ledger state
\* it started from; the variables hold the state it left.
\* ===================================================================

\* the cleartext of a handle, an uninitialized handle counting as 0
Clear(h) == IF h = 0 THEN 0 ELSE ciphertexts[h]

RECURSIVE SumOfStakes(_)
SumOfStakes(S) ==
    IF S = {} THEN 0
    ELSE LET a == CHOOSE x \in S : TRUE
         IN  Clear(stakedBalances[a]) + SumOfStakes(S \ {a})

IsStake == last.op \in {"stake", "stakeEuint64"}
IsUnstake == last.op \in {"unstake", "unstakeEuint64"}
Completed == last.outcome = "ok"
Invoked == last.cc # <<>>
Rejected == Invoked /\ last.cc[Len(last.cc)].rejected

PreBalance(a) == Clear(last.pre.bal[a])
PreTotal == Clear(last.pre.total)
PreCustody(a) == last.pre.cust[a]

\* the amount the custody collaborator moved and reported as transferred
Transferred == IF Invoked THEN last.cc[Len(last.cc)].moved ELSE 0

\* the change of the sender's balance and of the total, as integers
BalanceChange == Clear(stakedBalances[last.sender]) - PreBalance(last.sender)
TotalChange == Clear(totalStaked) - PreTotal

\* the call passed the checks of its entry point (grant or input proof)
Admitted ==
    /\ (IsStake \/ IsUnstake)
    /\ last.outcome \notin {"UnauthorizedEncryptedAmount", "InvalidInputProof"}

\* ---------------------------------------------------------------- C1
\* C1 (as claimed): in every reachable state the cleartext of totalStaked
\* is the sum of the cleartexts of all staked balances.
C1_Conservation ==
    Clear(totalStaked) = SumOfStakes(Accounts)

\* ---------------------------------------------------------------- C2
Ungranted == <<last.amount, last.sender>> \notin last.pre.acl

\* C2: stake(euint64) or unstake(euint64) with a handle on which the caller
\* holds no grant fails with UnauthorizedEncryptedAmount, leaves balances,
\* total, grants, custody balances and events as they were, and does not
\* invoke the custody collaborator.
C2_AuthorizationGate ==
    (last.op \in {"stakeEuint64", "unstakeEuint64"} /\ Ungranted)
        => /\ last.outcome = "UnauthorizedEncryptedAmount"
           /\ Snapshot = last.pre
           /\ ~Invoked

\* an account presents the balance handle of another account
C2_Witness ==
    /\ last.op \in {"stakeEuint64", "unstakeEuint64"}
    /\ Ungranted
    /\ last.amount # 0
    /\ \E a \in Accounts \ {last.sender} : last.amount = last.pre.bal[a]
    /\ last.outcome = "UnauthorizedEncryptedAmount"

\* ---------------------------------------------------------------- C3
\* an unstake, admitted by its entry point, of more than the sender staked
OverLarge == IsUnstake /\ Admitted /\ last.requested > PreBalance(last.sender)

ValuesKept ==
    /\ Clear(stakedBalances[last.sender]) = PreBalance(last.sender)
    /\ Clear(totalStaked) = PreTotal
    /\ custody[last.sender] = PreCustody(last.sender)

AskedToMove(x) ==
    /\ Len(last.cc) = 1
    /\ last.cc[1].fn = "confidentialTransfer"
    /\ last.cc[1].to = last.sender
    /\ last.cc[1].asked = x

\* C3 (as claimed): an admitted unstake of more than the sender's staked
\* balance completes without reverting, asks the custody collaborator to move zero
\* and leaves the balance, the total and the custody balance unchanged.
C3_Original ==
    OverLarge => (Completed /\ AskedToMove(0) /\ ValuesKept)

\* C3 (amended): an admitted unstake of more than the sender's staked balance asks
\* the custody collaborator to move zero and leaves the balance, the total
\* and the custody balance unchanged in value; it completes unless the
\* collaborator rejects that transfer, and it never fails for another reason.
C3_NoOpOnInvalidUnstake ==
    OverLarge => /\ Completed \/ (last.outcome = "CollaboratorRejected" /\ Rejected)
                 /\ AskedToMove(0)
                 /\ ValuesKept

C3_Witness ==
    /\ OverLarge
    /\ Completed
    /\ PreBalance(last.sender) > 0
    /\ AskedToMove(0)

\* ---------------------------------------------------------------- C4
\* C4: a call fails only for an unauthorized handle, an invalid input proof
\* or a rejection by the custody collaborator; never for an increase that
\* would overflow or a decrease that would underflow.
C4_NoArithmeticErrors ==
    \/ Completed
    \/ /\ last.outcome = "UnauthorizedEncryptedAmount"
       /\ last.op \in {"stakeEuint64", "unstakeEuint64"}
       /\ Ungranted
    \/ /\ last.outcome = "InvalidInputProof"
       /\ last.op \in {"stake", "unstake"}
       /\ ~Invoked
    \/ /\ last.outcome = "CollaboratorRejected"
       /\ Rejected

\* a stake completes although its credit would overflow the total
C4_Witness ==
    /\ IsStake
    /\ Completed
    /\ PreTotal + Transferred > MaxUint

\* ---------------------------------------------------------------- C5
\* C5: when the custody collaborator rejects the transfer of a stake or an
\* unstake, the call aborts and balances, total, grants, custody balances
\* and events are as before the call.
C5_AtomicAbort ==
    Rejected => /\ last.outcome = "CollaboratorRejected"
                /\ Snapshot = last.pre

\* the rejected unstake had written a lower balance and total before the
\* transfer
C5_Witness ==
    /\ IsUnstake
    /\ Rejected
    /\ last.requested > 0
    /\ last.requested <= PreBalance(last.sender)
    /\ last.cc[1].asked = last.requested

\* ---------------------------------------------------------------- C6
NoOverflow ==
    /\ PreBalance(last.sender) + Transferred <= MaxUint
    /\ PreTotal + Transferred <= MaxUint

\* C6: when a stake completes with t reported as transferred and neither
\* balance + t nor total + t exceeds the maximum, the sender's balance is
\* its old balance + t, the total is the old total + t and the sender's
\* custody balance is lower by t.
C6_StakeResult ==
    (IsStake /\ Completed /\ NoOverflow)
        => /\ Clear(stakedBalances[last.sender]) = PreBalance(last.sender) + Transferred
           /\ Clear(totalStaked) = PreTotal + Transferred
           /\ custody[last.sender] = PreCustody(last.sender) - Transferred

\* a second stake, on top of a balance and a total that are not zero
C6_Witness ==
    /\ IsStake
    /\ Completed
    /\ NoOverflow
    /\ Transferred > 0
    /\ PreBalance(last.sender) > 0
    /\ PreTotal > PreBalance(last.sender)

\* ---------------------------------------------------------------- C7
\* C7 (as claimed): when an unstake of X, at most the sender's staked
\* balance, completes, the balance is the old balance - X, the total is the
\* old total - X, the custody collaborator is asked to move exactly X to
\* the sender and the sender's custody balance is higher by X.
C7_UnstakeResult ==
    (IsUnstake /\ Completed /\ last.requested <= PreBalance(last.sender))
        => /\ Clear(stakedBalances[last.sender]) = PreBalance(last.sender) - last.requested
           /\ Clear(totalStaked) = PreTotal - last.requested
           /\ AskedToMove(last.requested)
           /\ custody[last.sender] = PreCustody(last.sender) + last.requested

\* ---------------------------------------------------------------- C8
\* C8 (as claimed): in every completed stake the balance and the total
\* increase by the amount the custody collaborator returned as transferred,
\* and never by the requested amount when the two differ.
C8_Original ==
    (IsStake /\ Completed)
        => /\ BalanceChange = Transferred
           /\ TotalChange = Transferred
           /\ last.requested # Transferred
                => (BalanceChange # last.requested /\ TotalChange # last.requested)

\* C8 (amended): in every completed stake in which neither balance + t nor
\* total + t exceeds the maximum, the balance and the total increase by the
\* amount t the custody collaborator returned as transferred; and in every
\* completed stake, neither increases by the requested amount when the two
\* differ.
C8_CreditsTransferred ==
    (IsStake /\ Completed)
        => /\ NoOverflow => (BalanceChange = Transferred /\ TotalChange = Transferred)
           /\ last.requested # Transferred
                => (BalanceChange # last.requested /\ TotalChange # last.requested)

\* the collaborator moved less than requested, but not nothing
C8_Witness ==
    /\ IsStake
    /\ Completed
    /\ NoOverflow
    /\ 0 < Transferred
    /\ Transferred < last.requested
    /\ BalanceChange = Transferred

\* ---------------------------------------------------------------- C9
\* C9 (as claimed): in every completed unstake the decrease of the sender's
\* balance and of the total is the amount the custody collaborator moved
\* out to the sender.
C9_DebitsTransferred ==
    (IsUnstake /\ Completed)
        => /\ BalanceChange = - Transferred
           /\ TotalChange = - Transferred

\* --------------------------------------------------------------- C10
\* C10 (as claimed): in every completed stake or unstake the sender's
\* balance and the total change by the same amount, or both keep their
\* value.
C10_MoveTogether ==
    ((IsStake \/ IsUnstake) /\ Completed) => BalanceChange = TotalChange

\* --------------------------------------------------------------- C11
\* C11 (as claimed): a completed stake whose transferred amount, added to
\* the sender's staked balance, would exceed the maximum leaves both the
\* sender's balance and the total at the values they had before the call.
C11_NoOverflow ==
    (IsStake /\ Completed /\ PreBalance(last.sender) + Transferred > MaxUint)
        => /\ BalanceChange = 0
           /\ TotalChange = 0

\* --------------------------------------------------------------- C12
\* C12: in every reachable state every staked balance and the total are
\* within 0 .. 2^Width - 1, and no unstake leaves the sender's balance or
\* the total above its value before the call.
C12_NoUnderflow ==
    /\ \A a \in Accounts : Clear(stakedBalances[a]) \in 0 .. MaxUint
    /\ Clear(totalStaked) \in 0 .. MaxUint
    /\ IsUnstake => (BalanceChange <= 0 /\ TotalChange <= 0)

\* an unstake of no more than the sender's balance but of more than the
\* total: the balance goes down, the total stays
C12_Witness ==
    /\ IsUnstake
    /\ Completed
    /\ last.requested <= PreBalance(last.sender)
    /\ last.requested > PreTotal
    /\ BalanceChange < 0
    /\ TotalChange = 0

\* --------------------------------------------------------------- C13
\* C13: in every reachable state the staked balance of each account is at
\* most what its stakes moved into custody less what its unstakes moved
\* out, and so the staked balances together never exceed the tokens the
\* ledger holds in custody.
C13_CollateralBacking ==
    /\ \A a \in Accounts : Clear(stakedBalances[a]) <= collateral[a]
    /\ SumOfStakes(Accounts) <= custody[Ledger]

\* after an unstake that debited more than the custody token moved out, an
\* account still has a stake, and more collateral than stake
C13_Witness ==
    /\ IsUnstake
    /\ Completed
    /\ 0 < Clear(stakedBalances[last.sender])
    /\ Clear(stakedBalances[last.sender]) < collateral[last.sender]
    /\ collateral[last.sender] <= custody[Ledger]

\* --------------------------------------------------------------- C14
\* C14: in every reachable state an initialized handle stored as the staked
\* balance of an account carries persistent grants for the ledger and for
\* that account, and an initialized totalStaked carries persistent grants
\* for the ledger and for the account whose stake or unstake stored it.
C14_NoDeadState ==
    /\ \A a \in Accounts :
          isInitialized(stakedBalances[a])
              => {<<stakedBalances[a], Ledger>>, <<stakedBalances[a], a>>} \subseteq acl
    /\ isInitialized(totalStaked)
          => /\ <<totalStaked, Ledger>> \in acl
             /\ events # <<>>
             /\ <<totalStaked, events[Len(events)].staker>> \in acl

\* an unstake stored a balance and a total that are new handles
C14_Witness ==
    /\ IsUnstake
    /\ Completed
    /\ isInitialized(last.pre.total)
    /\ isInitialized(last.pre.bal[last.sender])
    /\ totalStaked # last.pre.total
    /\ stakedBalances[last.sender] # last.pre.bal[last.sender]
    /\ totalStaked # stakedBalances[last.sender]
    /\ events[Len(events)].staker = last.sender

\* --------------------------------------------------------------- C15
\* the initialized handles that are or were stored as the staked balance of
\* account a: every store of a balance is followed, in the same call, by a
\* Staked or Unstaked record naming the stored handle
EverBalance(a) ==
    ({stakedBalances[a]} \cup
     {events[i].balanceAfter : i \in {j \in 1 .. Len(events) : events[j].staker = a}})
        \ {0}

C16_HiddenFromOthers ==
    \A b \in Accounts :
        b \notin twin.varied
            => \A h \in 1 .. Min(Len(ciphertexts), Len(twin.s.ct)) :
                   (<<h, b>> \in acl /\ <<h, b>> \in twin.s.acl)
                       => ciphertexts[h] = twin.s.ct[h]

\* --------------------------------------------------------------- C17
\* what an observer of the chain sees of the custody invocations of a call:
\* the handles, never the cleartexts
CallShape(cc) ==
    [i \in 1 .. Len(cc) |->
        [fn |-> cc[i].fn, from |-> cc[i].from, to |-> cc[i].to,
         amount |-> cc[i].amount, rejected |-> cc[i].rejected,
         authorized |-> cc[i].authorized]]

\* and of a run: the outcome of the call, the stored handles, the number of
\* handles derived, the grants, the records and the custody invocations
Observable(s, outcome, cc) ==
    [outcome |-> outcome, bal |-> s.bal, total |-> s.total,
     handles |-> Len(s.ct), acl |-> s.acl, ev |-> s.ev, cc |-> CallShape(cc)]

\* C17: two runs of the same calls by the same callers that differ only in
\* the cleartext amounts have the same observable trace: the same outcome
\* of every call, the same records, custody invocations, stored handles
\* and grants.
C17_NoBranchingOnSecrets ==
    Observable(Current, last.outcome, last.cc)
        = Observable(twin.s, twin.outcome, twin.s.cc)

\* an unstake that is applied in one run and silently left unchanged in the
\* other
C17_Witness ==
    /\ IsUnstake
    /\ Completed
    /\ twin.outcome = "ok"
    /\ BalanceChange < 0
    /\ twin.s.ct[twin.s.bal[last.sender]] = Value(twin.s, last.pre.bal[last.sender])

\* --------------------------------------------------------------- C18
\* C18 (as claimed): after a completed unstake of more than the sender's
\* staked balance, stakedBalanceOf(sender) and the total return the very
\* handles they returned before the call, and the sender's custody balance
\* is unchanged.
C18_Original ==
    (OverLarge /\ Completed)
        => /\ stakedBalances[last.sender] = last.pre.bal[last.sender]
           /\ totalStaked = last.pre.total
           /\ custody[last.sender] = PreCustody(last.sender)

\* C18 (amended): after a completed unstake of more than the sender's
\* staked balance, stakedBalanceOf(sender) and the total return handles
\* with the cleartexts they had before the call, and the sender's custody
\* balance is unchanged; the handles themselves are other handles than
\* before the call.
C18_SameValuesNewHandles ==
    (OverLarge /\ Completed)
        => /\ ValuesKept
           /\ isInitialized(stakedBalances[last.sender])
           /\ isInitialized(totalStaked)
           /\ stakedBalances[last.sender] # last.pre.bal[last.sender]
           /\ totalStaked # last.pre.total

\* the balance and the total were initialized and not zero before the
\* over-large unstake
C18_Witness ==
    /\ OverLarge
    /\ Completed
    /\ isInitialized(last.pre.bal[last.sender])
    /\ isInitialized(last.pre.total)
    /\ PreBalance(last.sender) > 0
    /\ PreTotal > PreBalance(last.sender)
    /\ stakedBalances[last.sender] > last.pre.bal[last.sender]

\* --------------------------------------------------------------- C19
\* C19: constructing the ledger with the zero address fails with
\* InvalidTokenAddress and leaves no ledger; constructing it with another
\* address succeeds and token() is that address; and once the ledger
\* exists no step changes what token() returns.
C19_ConfigurationError ==
    [][/\ (last'.op = "constructor" /\ last'.tokenAddress = ZeroAddress)
            => (last'.outcome = "InvalidTokenAddress" /\ token' = NoLedger)
       /\ (last'.op = "constructor" /\ last'.tokenAddress # ZeroAddress)
            => (last'.outcome = "ok" /\ token' = last'.tokenAddress)
       /\ token # NoLedger => token' = token]_vars

\* the ledger was constructed over the custody token and a stake has
\* completed since
C19_Witness ==
    /\ token = Token
    /\ last.op = "stake"
    /\ Completed
    /\ Transferred > 0

\* --------------------------------------------------------------- C20
\* the amount an unstake can apply: the requested amount when it does not
\* exceed the sender's balance, else zero
Appliable == IF last.requested <= PreBalance(last.sender) THEN last.requested ELSE 0

\* C20 (as claimed): every completed unstake emits exactly one Unstaked
\* record, for the sender, whose amount decrypts to the appliable amount
\* and whose balance is the sender's new balance.
C20_UnstakedRecord ==
    (IsUnstake /\ Completed)
        => /\ Len(events) = Len(last.pre.ev) + 1
           /\ events[Len(events)].name = "Unstaked"
           /\ events[Len(events)].staker = last.sender
           /\ Clear(events[Len(events)].amount) = Appliable
           /\ events[Len(events)].balanceAfter = stakedBalances[last.sender]

\* --------------------------------------------------------------- C21
\* the handle the custody collaborator returned as transferred
TransferredHandle == IF Invoked THEN last.cc[Len(last.cc)].returned ELSE 0

\* C21: a completed stake for which the custody collaborator returned an
\* initialized handle emits exactly one record: a Staked record for the
\* sender whose amount is the handle of the transferred amount and whose
\* balanceAfter is the handle stored as the sender's balance; and the
\* fields of every record are handles of stored ciphertexts, not amounts.
C21_StakedRecord ==
    /\ (IsStake /\ Completed /\ isInitialized(TransferredHandle))
          => /\ Len(events) = Len(last.pre.ev) + 1
             /\ events[Len(events)] =
                    [name |-> "Staked", staker |-> last.sender,
                     amount |-> TransferredHandle,
                     balanceAfter |-> stakedBalances[last.sender]]
    /\ \A i \in 1 .. Len(events) :
          /\ events[i].amount \in 0 .. Len(ciphertexts)
          /\ events[i].balanceAfter \in 1 .. Len(ciphertexts)

\* a stake on top of an initialized balance: the record names the new
\* balance handle, which is not the transferred handle
C21_Witness ==
    /\ IsStake
    /\ Completed
    /\ isInitialized(TransferredHandle)
    /\ isInitialized(last.pre.bal[last.sender])
    /\ events[Len(events)].balanceAfter # events[Len(events)].amount
    /\ events[Len(events)].balanceAfter # last.pre.bal[last.sender]

\* --------------------------------------------------------------- C22
IsQuery == last.op \in {"stakedBalanceOf", "confidentialTotalStaked"}

\* C22: stakedBalanceOf(account) and confidentialTotalStaked() never fail,
\* return the stored handle to any caller, with or without a grant on it
\* (the uninitialized handle for an account without a stored balance), and
\* change neither balances, total, grants, events nor ciphertexts.
C22_QueriesReadOnly ==
    IsQuery
        => /\ Completed
           /\ Snapshot = last.pre
           /\ last.op = "stakedBalanceOf" => last.ret = stakedBalances[last.account]
           /\ last.op = "confidentialTotalStaked" => last.ret = totalStaked

\* a caller without any grant reads the initialized balance of an account
C22_Witness ==
    /\ last.op = "stakedBalanceOf"
    /\ Completed
    /\ isInitialized(last.ret)
    /\ <<last.ret, last.sender>> \notin acl
    /\ last.sender # last.account
    /\ last.ret # totalStaked

\* --------------------------------------------------------------- C23
\* the last step made the stored balance of account a initialized
Created(a) == ~isInitialized(last.pre.bal[a]) /\ isInitialized(stakedBalances[a])

\* C23 (as claimed): the stored balance of an account becomes initialized
\* only by a completed stake of that account.
C23_Original ==
    \A a \in Accounts :
        Created(a) => (IsStake /\ Completed /\ last.sender = a)

\* C23 (amended): the stored balance of an account becomes initialized only
\* by a completed call of that account: a stake, or an unstake, which
\* stores an encryption of zero; never by a call of another account.
C23_LazyCreation ==
    \A a \in Accounts :
        Created(a)
            => /\ Completed
               /\ last.sender = a
               /\ \/ IsStake
                  \/ IsUnstake /\ Clear(stakedBalances[a]) = 0

\* the first stake of an account, after the other account has called and
\* holds an initialized balance
C23_Witness ==
    /\ IsStake
    /\ Created(last.sender)
    /\ Clear(stakedBalances[last.sender]) > 0
    /\ \E b \in Accounts \ {last.sender} : isInitialized(last.pre.bal[b])

\* --------------------------------------------------------------- C24
\* C24: no step stores the uninitialized handle over an initialized one: a
\* stored balance that was initialized before the last call is initialized
\* after it, and so is the total.
C24_NeverDeleted ==
    /\ \A a \in Accounts :
          isInitialized(last.pre.bal[a]) => isInitialized(stakedBalances[a])
    /\ isInitialized(last.pre.total) => isInitialized(totalStaked)

\* an unstake of all that is staked: balance and total are encryptions of
\* zero, not the uninitialized handle
C24_Witness ==
    /\ IsUnstake
    /\ Completed
    /\ PreBalance(last.sender) > 0
    /\ PreTotal = PreBalance(last.sender)
    /\ isInitialized(stakedBalances[last.sender])
    /\ isInitialized(totalStaked)
    /\ Clear(stakedBalances[last.sender]) = 0
    /\ Clear(totalStaked) = 0

\* --------------------------------------------------------------- C25
\* C25: the persistent grants only grow: every grant held before the last
\* call is held after it, so an account keeps its grants on the balance
\* and total handles that the call superseded.
C25_GrantsAdditive ==
    last.pre.acl \subseteq acl

\* the sender still holds its grants on the balance handle and on the
\* total handle that its unstake superseded
C25_Witness ==
    /\ IsUnstake
    /\ Completed
    /\ isInitialized(last.pre.bal[last.sender])
    /\ stakedBalances[last.sender] # last.pre.bal[last.sender]
    /\ <<last.pre.bal[last.sender], last.sender>> \in acl
    /\ totalStaked # last.pre.total
    /\ <<last.pre.total, last.sender>> \in acl

\* --------------------------------------------------------------- C26
\* C26: whenever a stake or an unstake invokes the custody collaborator
\* with an initialized amount handle, the collaborator is authorized on
\* that handle at the invocation, and after the call the collaborator
\* holds no persistent grant on it that it did not hold before the call.
C26_TransientAuthorization ==
    \A i \in 1 .. Len(last.cc) :
        isInitialized(last.cc[i].amount)
            => /\ last.cc[i].authorized
               /\ <<last.cc[i].amount, Token>> \in acl
                     => <<last.cc[i].amount, Token>> \in last.pre.acl

\* an unstake handed the collaborator the applied amount, on which no
\* persistent grant for the collaborator is left
C26_Witness ==
    /\ IsUnstake
    /\ Completed
    /\ Invoked
    /\ last.cc[1].asked > 0
    /\ last.cc[1].authorized
    /\ <<last.cc[1].amount, Token>> \notin acl

\* --------------------------------------------------------------- C27
\* C27 (as claimed): the initialized handle that a completed stake or
\* unstake returns has been granted by the ledger itself, in that call, to
\* the ledger and to the sender.
C27_ReturnedAuthorized ==
    ((IsStake \/ IsUnstake) /\ Completed /\ isInitialized(last.ret))
        => {<<last.ret, Ledger>>, <<last.ret, last.sender>>} \subseteq last.granted

\* --------------------------------------------------------------- C29
\* the principals holding a persistent grant on handle h
GrantsOn(grants, h) == {g \in grants : g[1] = h}

\* the grants the last call added, and the handles that existed before it
NewGrants == acl \ last.pre.acl
OldHandles == 1 .. last.pre.handles

C30_NoOverWithdrawal ==
    /\ IsUnstake
          => \A i \in 1 .. Len(last.cc) : last.cc[i].asked <= PreBalance(last.sender)
    /\ \A a \in Accounts :
          /\ cumulative[a].askedOut <= cumulative[a].credited
          /\ Clear(stakedBalances[a]) = cumulative[a].credited - cumulative[a].askedOut

\* the second unstake of an account, which leaves part of what it staked
C30_Witness ==
    /\ IsUnstake
    /\ Completed
    /\ Invoked
    /\ last.cc[1].asked > 0
    /\ cumulative[last.sender].askedOut > last.cc[1].asked
    /\ cumulative[last.sender].askedOut < cumulative[last.sender].credited

\* --------------------------------------------------------------- C28
\* C28 (as claimed): a stake or unstake finishes its reads, arithmetic,
\* grants and its custody transfer before another stake or unstake
\* observes or changes the ledger state: no call made from inside the
\* custody transfer of a stake or unstake is carried out.
C28_RunToCompletion ==
    \A i \in 1 .. Len(last.nested) : last.nested[i].outcome # "ok"

\* C31: a stake whose custody invocation returns the uninitialized handle is
\* a no-op: it returns that handle, emits no record, and leaves the staked
\* balances, the total and the persistent grants as they were.
C31_UninitializedTransferNoOp ==
    (IsStake /\ last.outcome = "ok" /\ Invoked /\ TransferredHandle = 0) =>
        /\ last.ret = 0
        /\ events = last.pre.ev
        /\ stakedBalances = last.pre.bal
        /\ totalStaked = last.pre.total
        /\ acl = last.pre.acl

\* such a stake, by an account that already has a balance
C31_Witness ==
    /\ IsStake /\ last.outcome = "ok" /\ Invoked /\ TransferredHandle = 0
    /\ last.requested > 0
    /\ last.pre.bal[last.sender] # 0

\* the ledger and the custody books the last call started from
PreState ==
    [bal |-> last.pre.bal, total |-> last.pre.total,
     ct |-> SubSeq(ciphertexts, 1, last.pre.handles),
     acl |-> last.pre.acl, tr |-> {}, ev |-> last.pre.ev, cust |-> last.pre.cust,
     cc |-> <<>>, granted |-> {}, nested |-> <<>>]

\* the last call, and the call made from inside its custody invocation,
\* each as a transaction of its own with a collaborator that moves what it
\* is asked and does not call back
OuterCall ==
    [op |-> last.op, sender |-> last.sender, v |-> last.requested, c |-> MovesAll]
InnerCall == last.nested[1].call

\* the cleartext balances and total a call result r leaves
Books(r) ==
    [bal |-> [a \in Accounts |-> Value(r.s, r.s.bal[a])],
     total |-> Value(r.s, r.s.total)]

\* the call second, run as a transaction after the call result r
Then(r, second) == ledgerCall([r.s EXCEPT !.tr = {}], second)

\* first, then second, from the state the last call started from
OneAfterTheOther(first, second) == Then(ledgerCall(PreState, first), second)

ReenteredAndCompleted ==
    /\ last.outcome = "ok"
    /\ Len(last.nested) = 1
    /\ last.nested[1].outcome = "ok"

\* C32: no update is lost under re-entry.  When a stake or unstake completes
\* whose custody invocation had the ledger called back, the balances and
\* the total are those of the inner and the outer call run one after the
\* other, in one order or the other.
C32_NoLostUpdate ==
    ReenteredAndCompleted =>
        LET now == [bal |-> [a \in Accounts |-> Clear(stakedBalances[a])],
                    total |-> Clear(totalStaked)]
        IN  \/ now = Books(OneAfterTheOther(InnerCall, OuterCall))
            \/ now = Books(OneAfterTheOther(OuterCall, InnerCall))

\* the digits typed before and after the point, of a text that parses
TypedInteger == split(trim(amountField.text))[1]
TypedFraction ==
    LET parts == split(trim(amountField.text))
    IN  IF Len(parts) >= 2 THEN parts[2] ELSE <<>>

\* the number typed, in units of 10^-Len(TypedFraction)
TypedNumber == BigInt(TypedInteger \o TypedFraction)

\* C37: amounts round-trip and parsing truncates.  The text formatMicroValue
\* gives for a value that is not negative parses back to that value; and a
\* typed text that parses gives the number typed in micro-units, cut off
\* after the sixth fractional digit, never rounded up.
C37_RoundTripAndTruncation ==
    /\ (amountField.origin = "formatted" /\ amountField.stage = "parsed") =>
           amountField.parsed = Some(amountField.value)
    /\ (amountField.origin = "typed" /\ amountField.stage = "parsed"
            /\ ~amountField.parsed.null) =>
           amountField.parsed.value =
               IF Len(TypedFraction) <= 6
               THEN TypedNumber * (10 ^ (6 - Len(TypedFraction)))
               ELSE TypedNumber \div (10 ^ (Len(TypedFraction) - 6))

\* a value with whole units, and a fraction that is padded on the left and
\* stripped on the right, has been formatted and parsed back
C37_Witness ==
    /\ amountField.origin = "formatted" /\ amountField.stage = "parsed"
    /\ amountField.value > MICRO_FACTOR
    /\ (amountField.value % MICRO_FACTOR) \in 1 .. 99999
    /\ (amountField.value % 10) = 0
    /\ ~amountField.parsed.null


\* C33: the decrypting flag is true only while a run that was not cancelled
\* is in flight; once every run has ended or been cancelled it is false.
\* The code does not keep this: a run cancelled in flight never clears it.
C33_DecryptingIndicator ==
    app.decrypting =>
        \E i \in DOMAIN runs : inFlight(runs[i]) /\ ~runs[i].cancelled

\* C34: a run that was cancelled has written neither the balances nor
\* decryptError; the balances displayed are those of the newest run that
\* decrypted without being cancelled, or zero after a reset.
C34_StaleResultsDiscarded ==
    /\ \A i \in DOMAIN runs : runs[i].cancelled => runs[i].wrote = "nothing"
    /\ shown.by = "reset" => app.balances = ZeroBalances
    /\ shown.by = "run" =>
           /\ runs[shown.run].wrote = "balances"
           /\ \A j \in (shown.run + 1)..Len(runs) : runs[j].wrote # "balances"

\* an older run's decrypt resolved after it was cancelled, and the balances
\* displayed are another run's
C34_Witness ==
    \E i \in DOMAIN runs :
        /\ runs[i].pc = "returned"
        /\ shown.by = "run"
        /\ shown.run # i
        /\ app.balances # ZeroBalances


\* C35: when a handler has ended, however it ended, its loading flag is
\* false, and after a failure the feedback is an error; no loading flag is
\* true without its handler running.
C35_LoadingFlagsCleared ==
    /\ finished.name # "none" =>
           /\ ~finished.loading
           /\ ~app[loadingFlag(finished.name)]
           /\ finished.failed =>
                  /\ finished.feedback = "error"
                  /\ app.feedback.type = "error"
    /\ \A name \in HandlerNames :
           handlers[name].pc = "idle" => ~app[loadingFlag(name)]

\* a stake ended by a failure after its transaction was submitted
C35_Witness ==
    /\ finished.name = "handleStake"
    /\ finished.failed
    /\ finished.flagSet
    /\ finished.submitted

\* C36: handleStake and handleUnstake go no further than their checks when
\* the amount does not parse or parses to 0, or when the signer, the address
\* or the encryption instance is missing: nothing is encrypted or submitted,
\* the loading flag is not set, and only the feedback changes, to an error.
C36_InputValidation ==
    /\ \A name \in {"handleStake", "handleUnstake"} :
           handlers[name].pc # "idle" => handlers[name].valid
    /\ finished.name \in {"handleStake", "handleUnstake"} /\ ~finished.valid =>
           /\ finished.failed
           /\ ~finished.flagSet
           /\ ~finished.loading
           /\ ~finished.encrypted
           /\ ~finished.submitted
           /\ finished.feedback = "error"
           /\ finished.touched \subseteq {"feedback"}

\* a stake of an amount below one micro unit, with wallet and instance
\* there, was refused
C36_Witness ==
    /\ finished.name = "handleStake"
    /\ ~finished.valid
    /\ app.signerPromise # Undefined
    /\ app.instance = "ready"
    /\ parseAmountToMicro(app.stakeAmount) = Some(0)
    /\ app.feedback = Failure("Enter a valid amount greater than 0")

=============================================================================
